---- MODULE Spec2Model ----
(***************************************************************************)
(* A model of the squarehole router (src/src/router.mts): Router.handle,   *)
(* dataResponse, routeResponse and mergeFragmentHeaders, as a state        *)
(* machine whose steps are the synchronous runs of the code between two    *)
(* awaits.  One request is handled per behaviour: the router keeps no      *)
(* state between requests apart from the immutable route table.            *)
(* PumpSpec adds the streaming of the document (startStreaming and         *)
(* toReadableStream); SuspenseSpec is the map of suspense.tsx under        *)
(* renders that declare and resolve deferred subtrees.                     *)
(***************************************************************************)
EXTENDS Integers, Sequences, FiniteSets, TLC

\* ------------------------------------------------------------------ bounds
\* the longest route table
MaxRoutes == 2
\* the longest fragment chain of a route
MaxChain == 2
\* the most deferred subtrees the renders of a process declare
MaxDeclared == 2
\* the most segments of a route name
MaxSegments == 3
\* the most files of a routes folder
MaxFiles == 3

\* ------------------------------------------------------------------ values
Undefined == [kind |-> "undefined"]
\* handle has not returned yet
NoResponse == [kind |-> "none", by |-> <<"none", "none">>, status |-> 0]

\* a plain value produced by the function fn of fragment id
Data(fn, id) == [kind |-> "data", by |-> <<fn, id>>]
\* a Response object built by user code (returned or thrown)
UserResponse(fn, id) == [kind |-> "Response", by |-> <<fn, id>>, status |-> 303]
\* a thrown value that is no Response
UserError(fn, id) == [kind |-> "Error", by |-> <<fn, id>>]

\* new Response(null, { status })
NullResponse(status) ==
  [kind |-> "Response", by |-> <<"router", "null">>, status |-> status]

\* JSON.stringify as used by Response.json: the encoding of a plain value
JsonStringify(value) == <<"json", value.by>>

\* Response.json(value)
ResponseJson(value) ==
  [kind |-> "Response", by |-> <<"router", "json">>, status |-> 200,
   contentType |-> "application/json", body |-> JsonStringify(value)]

\* new Response(stream.readable, { headers, status: 200 })
StreamResponse(hs) ==
  [kind |-> "Response", by |-> <<"router", "stream">>, status |-> 200,
   headers |-> hs]

\* ------------------------------------------------------------------ modules
\* mod: which of loader, action, default and headers a route module exports
Mods == [loader : BOOLEAN, action : BOOLEAN, default : BOOLEAN, headers : BOOLEAN]

\* a module exporting everything, used where the shape is not the subject
FullMod == [loader |-> TRUE, action |-> TRUE, default |-> TRUE, headers |-> TRUE]

\* fragment: { id, mod }
Fragment(id, mod) == [id |-> id, mod |-> mod]

\* ------------------------------------------------------------------ URLPattern
Patterns == {<<"a">>, <<":id">>, <<"*">>}
Paths == {<<"a">>, <<"b">>, <<"a", "b">>}

NoGroups == [x \in {} |-> <<>>]
NoMatch == [matched |-> FALSE, groups |-> NoGroups]

RECURSIVE ExecFrom(_, _, _)
\* URLPattern matching of a pathname, segment by segment: a literal segment
\* matches itself, :id captures one segment, a trailing * captures the rest
ExecFrom(pattern, path, groups) ==
  IF pattern = <<>>
    THEN IF path = <<>> THEN [matched |-> TRUE, groups |-> groups] ELSE NoMatch
  ELSE IF Head(pattern) = "*"
    THEN [matched |-> TRUE, groups |-> groups @@ ("0" :> path)]
  ELSE IF path = <<>>
    THEN NoMatch
  ELSE IF Head(pattern) = ":id"
    THEN ExecFrom(Tail(pattern), Tail(path), groups @@ ("id" :> <<Head(path)>>))
  ELSE IF Head(pattern) = Head(path)
    THEN ExecFrom(Tail(pattern), Tail(path), groups)
  ELSE NoMatch

\* pattern.exec(urlStr)
Exec(pattern, urlStr) == ExecFrom(pattern, urlStr, NoGroups)

NotFound == [found |-> FALSE, fragments |-> <<>>, params |-> NoGroups]

RECURSIVE LastMatchFrom(_, _, _)
LastMatchFrom(rs, urlStr, k) ==
  IF k < 1 THEN NotFound
  ELSE LET match == Exec(rs[k].pattern, urlStr)
       IN  IF match.matched
             THEN [found |-> TRUE, fragments |-> rs[k].fragments,
                   params |-> match.groups]
             ELSE LastMatchFrom(rs, urlStr, k - 1)

\* a router that lets a later route override an earlier one
LastMatch(rs, urlStr, k) == LastMatchFrom(rs, urlStr, Len(rs))

RECURSIVE MatchFrom(_, _, _)
\* the loop over routes of handle, from route k on: the first match, then break
MatchFrom(rs, urlStr, k) ==
  IF k > Len(rs) THEN NotFound
  ELSE LET match == Exec(rs[k].pattern, urlStr)
       IN  IF match.matched
             THEN [found |-> TRUE, fragments |-> rs[k].fragments,
                   params |-> match.groups]
             ELSE MatchFrom(rs, urlStr, k + 1)


\* ------------------------------------------------------------------ tables
\* the modules of the fragments above the leaf: handle reads mod.action of
\* the leaf only, so above it every module is given an action
OuterMods == {m \in Mods : m.action}

\* the module shapes of a chain, outermost first
Chains ==
  UNION {{shape \in [1..n -> Mods] : \A k \in 1..(n - 1) : shape[k] \in OuterMods} :
           n \in 1..MaxChain}

\* the fragment chain of route r whose modules have the given shapes
ChainOf(r, shape) == [k \in 1..Len(shape) |-> Fragment(<<r, k>>, shape[k])]

\* route: [pattern, fragments]
Route(pattern, frags) == [pattern |-> pattern, fragments |-> frags]

\* one route /:id, its chain of every shape
DispatchTables == {<<Route(<<":id">>, ChainOf(1, shape))>> : shape \in Chains}

\* a document module and a page module exporting everything
MatchShape ==
  <<[loader |-> FALSE, action |-> FALSE, default |-> TRUE, headers |-> FALSE],
    FullMod>>

\* every table of at most MaxRoutes patterns, each route with its own chain
MatchTables ==
  UNION {{[r \in 1..n |-> Route(ps[r], ChainOf(r, MatchShape))] :
            ps \in [1..n -> Patterns]} : n \in 1..MaxRoutes}

Methods == {"GET", "POST"}

\* request: url (the pathname), method, and whether it has the fx-request header
Requests(urls) == [url : urls, method : Methods, fx : BOOLEAN]

\* the renders that declare and resolve deferred subtrees in one process
Renders == {1, 2}

\* ------------------------------------------------------------------ state
VARIABLES
  routes,       \* the route table given to Router
  request,      \* the request handle is called with
  pc,           \* where handle stands: init, loading, headers, data, returned
  fragments,    \* handle's fragments, after the fx-request slice
  params,       \* handle's params
  calls,        \* the calls made to loaders, actions, headers and components
  loaders,      \* routeResponse: the promises given to Promise.all, by index
  join,         \* routeResponse: the promise Promise.all returns
  hdrI,         \* mergeFragmentHeaders: i
  headers,      \* routeResponse: the Headers object, as its list of entries
  stream,       \* routeResponse: the TransformStream
  body,         \* the chunks written to the stream's writer
  node,         \* routeResponse: the composed node
  components,   \* the promises returned by async components, by index
  dataPromise,  \* dataResponse: the promise f(ctx) being awaited
  settleOrder,  \* the indices of the loaders' promises, in the order they settled
  response,     \* what handle's promise fulfilled with
  source,       \* toReadableStream: what node.text has yet to do
  readable,     \* htmlStream: none, readable, closed, errored
  queue,        \* htmlStream: the chunks enqueued and not yet read
  pump,         \* where startStreaming stands
  closes,       \* the number of calls of writer.close()
  suspended,    \* suspense.tsx: the keys of the map suspended, in insertion order
  deferred,     \* the promise held by suspended under each key ever set
  minted,       \* the number of calls of crypto.randomUUID()
  started,      \* the keys whose deferred content has begun to be computed
  elements,     \* the elements Suspense returned, in the order of the calls
  declared,     \* the number of subtrees each render has declared
  drain,        \* where the generator of each render's Resolve stands
  race,         \* the Promise.race each render's Resolve awaits
  patches,      \* what each render's Resolve has yielded
  flushed,      \* the elements of Suspense written to each render's body
  settleSeq,    \* the keys of the deferred promises, in the order they settled
  names,        \* sort.mts: the two route names given to bySpecificity
  compared,     \* sort.mts: what bySpecificity returned for them
  routePath,    \* generate-router.mts: the name given to generatePatternString
  pattern,      \* generate-router.mts: the pattern string it returned
  files,        \* generate-router.mts: the names readdir returned, in its order
  table         \* generate-router.mts: the route items of the generated module

vars ==
  <<routes, request, pc, fragments, params, calls, loaders, join, hdrI, headers,
    stream, body, node, components, dataPromise, settleOrder, response,
    source, readable, queue, pump, closes,
    suspended, deferred, minted, started, elements, declared, drain, race,
    patches, flushed, settleSeq, names, compared, routePath, pattern, files,
    table>>

\* the state of a request up to the return of handle
routerVars ==
  <<routes, request, pc, fragments, params, calls, loaders, join, hdrI, headers,
    stream, body, node, components, dataPromise, settleOrder, response>>

\* the state of the streaming of the document
pumpVars == <<source, readable, queue, pump, closes>>

\* the state of suspense.tsx and of the renders that use it
suspenseVars ==
  <<suspended, deferred, minted, started, elements, declared, drain, race,
    patches, flushed, settleSeq>>

\* the state of a comparison of two route names
sortVars == <<names, compared>>

\* the state of a generation of the route table
genVars == <<routePath, pattern, files, table>>

Nothing == [kind |-> "none"]
NoPromise == [state |-> "none", value |-> Nothing]
Pending == [state |-> "pending", value |-> Nothing]
Fulfilled(v) == [state |-> "fulfilled", value |-> v]
Rejected(v) == [state |-> "rejected", value |-> v]
EmptyNode == [node |-> "empty"]

InitRest ==
  /\ pc = "init"
  /\ fragments = <<>>
  /\ params = NoGroups
  /\ calls = <<>>
  /\ loaders = <<>>
  /\ join = NoPromise
  /\ hdrI = 0
  /\ headers = <<>>
  /\ stream = "none"
  /\ body = <<>>
  /\ node = EmptyNode
  /\ components = <<>>
  /\ dataPromise = NoPromise
  /\ settleOrder = <<>>
  /\ response = NoResponse
  /\ source = <<>>
  /\ readable = "none"
  /\ queue = <<>>
  /\ pump = "none"
  /\ closes = 0
  /\ suspended = <<>>
  /\ deferred = <<>>
  /\ minted = 0
  /\ started = {}
  /\ elements = <<>>
  /\ declared = [r \in Renders |-> 0]
  /\ drain = [r \in Renders |-> "none"]
  /\ race = [r \in Renders |-> Nothing]
  /\ patches = [r \in Renders |-> <<>>]
  /\ flushed = [r \in Renders |-> <<>>]
  /\ settleSeq = <<>>

\* no route names are being compared
NotCompared == [done |-> FALSE, value |-> 0]
NoSort == names = <<>> /\ compared = NotCompared

\* nothing is being generated
NotGenerated == [done |-> FALSE, value |-> <<>>]
NoTable == [stage |-> "files", routes |-> <<>>, items |-> <<>>]
NoGen ==
  /\ routePath = <<>> /\ pattern = NotGenerated
  /\ files = <<>> /\ table = NoTable

Init ==
  /\ \/ routes \in DispatchTables /\ request \in Requests({<<"a">>, <<"a", "b">>})
     \/ routes \in MatchTables /\ request \in Requests(Paths)
  /\ InitRest
  /\ NoSort
  /\ NoGen

\* ------------------------------------------------------------------ handle
\* a slice that keeps every fragment
SliceNone(frags) == frags

\* fragments.slice(1)
Slice1(frags) == IF frags = <<>> THEN <<>> ELSE Tail(frags)

\* the fragments handle goes on with: without the outermost one on fx-request
Sliced(req, frags) == IF req.fx THEN Slice1(frags) ELSE frags

\* ctx = { request, params, context }
Ctx(req, ps) == [request |-> req, params |-> ps]

\* a dispatch that serves the action of a leaf whatever the method
DispatchAnyMethod(method, frags) ==
  LET hasLeaf == frags # <<>>
      leaf == frags[Len(frags)].mod
  IN  IF method = "GET" /\ hasLeaf /\ leaf.default THEN "routeResponse"
      ELSE IF method = "GET" /\ hasLeaf /\ leaf.loader THEN "loader"
      ELSE IF hasLeaf /\ leaf.action THEN "action"
      ELSE "notfound"

\* a dispatch that prefers the loader of the leaf to its component
DispatchLoaderFirst(method, frags) ==
  LET hasLeaf == frags # <<>>
      leaf == frags[Len(frags)].mod
  IN  IF method = "GET" /\ hasLeaf /\ leaf.loader THEN "loader"
      ELSE IF method = "GET" /\ hasLeaf /\ leaf.default THEN "routeResponse"
      ELSE IF method # "GET" /\ hasLeaf /\ leaf.action THEN "action"
      ELSE "notfound"

\* a dispatch that renders the component of the leaf whatever the method
DispatchDocumentFirst(method, frags) ==
  LET hasLeaf == frags # <<>>
      leaf == frags[Len(frags)].mod
  IN  IF hasLeaf /\ leaf.default THEN "routeResponse"
      ELSE IF method = "GET" /\ hasLeaf /\ leaf.loader THEN "loader"
      ELSE IF method # "GET" /\ hasLeaf /\ leaf.action THEN "action"
      ELSE "notfound"

\* the branch handle takes for the leaf: default, then loader, then action
Dispatch(method, frags) ==
  LET hasLeaf == frags # <<>>
      leaf == frags[Len(frags)].mod
  IN  IF method = "GET" /\ hasLeaf /\ leaf.default THEN "routeResponse"
      ELSE IF method = "GET" /\ hasLeaf /\ leaf.loader THEN "loader"
      ELSE IF method # "GET" /\ hasLeaf /\ leaf.action THEN "action"
      ELSE "notfound"

\* a catch clause that answers 500 whatever was thrown
Catch500(e) == NullResponse(500)

\* a catch clause that hands back whatever was thrown
CatchLeak(e) == e

\* the catch clause of handle
Catch(e) == IF e.kind = "Response" THEN e ELSE NullResponse(500)

\* what a thrown or rejected outcome raises
Raised(fn, id, out) ==
  IF out \in {"throwResponse", "rejectResponse"}
    THEN UserResponse(fn, id) ELSE UserError(fn, id)

Min(S) == CHOOSE x \in S : \A y \in S : x <= y

\* a map that calls the loader of the leaf only
OnlyLeafLoader(frags) == {k \in {Len(frags)} : frags[k].mod.loader}

\* the indices of the fragments whose loader fragments.map calls
LoadersToCall(frags) == {k \in 1..Len(frags) : frags[k].mod.loader}

\* what a function does when called: it returns a promise or throws at once
CallOutcomes == {"pending", "throwResponse", "throwError"}
\* how the promise dataResponse awaits settles: with a plain value, with a
\* Response the function returned, or rejected
SettleOutcomes == {"value", "response", "rejectResponse", "rejectError"}
\* how the promise of a loader given to Promise.all settles; routeResponse
\* treats a Response a loader returns as any other value
LoaderOutcomes == {"value", "rejectResponse", "rejectError"}

\* a call of the function fn of fragment id with argument arg, and what it did
Call(fn, id, arg, out) == [fn |-> fn, frag |-> id, arg |-> arg, out |-> out]

RECURSIVE LoaderCalls(_, _, _, _, _)
\* the calls fragments.map makes, in index order, up to index last
LoaderCalls(frags, ctx, outs, k, last) ==
  IF k > last THEN <<>>
  ELSE (IF k \in LoadersToCall(frags)
          THEN <<Call("loader", frags[k].id, ctx, outs[k])>>
          ELSE <<>>) \o LoaderCalls(frags, ctx, outs, k + 1, last)

\* a join that keeps the latest rejection instead of the first
PromiseAllLast(j, ls, settled) ==
  IF j.state = "fulfilled" THEN j
  ELSE IF settled.state = "rejected" THEN Rejected(settled.value)
  ELSE IF j.state = "pending" /\ \A k \in DOMAIN ls : ls[k].state = "fulfilled"
    THEN Fulfilled(Nothing)
  ELSE j

\* a join that waits for every input and fulfils whatever they did
PromiseAllSettled(j, ls, settled) ==
  IF j.state # "pending" THEN j
  ELSE IF \A k \in DOMAIN ls : ls[k].state \in {"fulfilled", "rejected"}
    THEN Fulfilled(Nothing)
  ELSE j

\* how Promise.all stands once its inputs stand as ls, the last of them to
\* settle being settled: it rejects with the first rejection, fulfils when
\* every input has fulfilled
PromiseAll(j, ls, settled) ==
  IF j.state # "pending" THEN j
  ELSE IF settled.state = "rejected" THEN Rejected(settled.value)
  ELSE IF \A k \in DOMAIN ls : ls[k].state = "fulfilled"
    THEN Fulfilled(Nothing)
  ELSE j

\* routeResponse up to its first await: fragments.map(loader?.(ctx)), Promise.all
StartRoute(frags, ctx) ==
  /\ UNCHANGED dataPromise
  /\ \E outs \in [1..Len(frags) -> CallOutcomes] :
    LET throwers == {k \in LoadersToCall(frags) : outs[k] # "pending"}
        n == Len(frags)
    IN  IF throwers # {}
          THEN LET t == Min(throwers)
               IN  /\ calls' = calls \o LoaderCalls(frags, ctx, outs, 1, t)
                   /\ loaders' = [k \in 1..(t - 1) |->
                                    IF k \in LoadersToCall(frags)
                                      THEN Pending ELSE Fulfilled(Undefined)]
                   /\ response' = Catch(Raised("loader", frags[t].id, outs[t]))
                   /\ pc' = "returned"
                   /\ join' = join
          ELSE LET ls == [k \in 1..n |->
                            IF k \in LoadersToCall(frags)
                              THEN Pending ELSE Fulfilled(Undefined)]
               IN  /\ calls' = calls \o LoaderCalls(frags, ctx, outs, 1, n)
                   /\ loaders' = ls
                   /\ join' = PromiseAll(Pending, ls, Fulfilled(Undefined))
                   /\ pc' = "loading"
                   /\ response' = response

\* dataResponse up to its await: f(ctx)
StartData(fn, frags, ctx) ==
  LET id == frags[Len(frags)].id
  IN  /\ UNCHANGED <<loaders, join>>
      /\ \E out \in CallOutcomes :
           /\ calls' = Append(calls, Call(fn, id, ctx, out))
           /\ IF out = "pending"
               THEN /\ dataPromise' = [state |-> "pending", fn |-> fn, frag |-> id]
                    /\ pc' = "data"
                    /\ response' = response
               ELSE /\ response' = Catch(Raised(fn, id, out))
                    /\ pc' = "returned"
                    /\ dataPromise' = dataPromise

\* handle, from its call to its first await or its return
Handle ==
  /\ pc = "init"
  /\ LET m == MatchFrom(routes, request.url, 1)
         frags == Sliced(request, m.fragments)
         ctx == Ctx(request, m.params)
     IN  IF ~m.found
           THEN /\ response' = NullResponse(404)
                /\ pc' = "returned"
                /\ UNCHANGED <<fragments, params, calls, loaders, join, dataPromise>>
           ELSE /\ fragments' = frags
                /\ params' = m.params
                /\ CASE Dispatch(request.method, frags) = "routeResponse" ->
                          StartRoute(frags, ctx)
                     [] Dispatch(request.method, frags) = "loader" ->
                          StartData("loader", frags, ctx)
                     [] Dispatch(request.method, frags) = "action" ->
                          StartData("action", frags, ctx)
                     [] OTHER ->
                          /\ response' = NullResponse(404)
                          /\ pc' = "returned"
                          /\ UNCHANGED <<calls, loaders, join, dataPromise>>
  /\ UNCHANGED <<routes, request, hdrI, headers, stream, body, node, components,
                 settleOrder>>
  /\ UNCHANGED <<pumpVars, suspenseVars, sortVars, genVars>>


\* what a settled promise of the function fn of fragment id holds
Settled(fn, id, out) ==
  CASE out = "value" -> Fulfilled(Data(fn, id))
    [] out = "response" -> Fulfilled(UserResponse(fn, id))
    [] OTHER -> Rejected(Raised(fn, id, out))

\* the promise of the loader of fragment k settles, and Promise.all sees it
LoaderSettle(k) ==
  /\ k \in DOMAIN loaders
  /\ loaders[k].state = "pending"
  /\ settleOrder' = Append(settleOrder, k)
  /\ \E out \in LoaderOutcomes :
       LET p == Settled("loader", fragments[k].id, out)
           ls == [loaders EXCEPT ![k] = p]
       IN  /\ loaders' = ls
           /\ join' = PromiseAll(join, ls, p)
  /\ UNCHANGED <<routes, request, pc, fragments, params, calls, hdrI, headers,
                 stream, body, node, components, dataPromise, response>>
  /\ UNCHANGED <<pumpVars, suspenseVars, sortVars, genVars>>

\* new Headers({ "Content-Type": "text/html" })
InitHeaders == <<<<"Content-Type", "text/html">>>>

\* routeResponse resumes after await Promise.all
AwaitLoaders ==
  /\ pc = "loading"
  /\ join.state \in {"fulfilled", "rejected"}
  /\ IF join.state = "rejected"
       THEN /\ response' = Catch(join.value)
            /\ pc' = "returned"
            /\ UNCHANGED <<hdrI, headers>>
       ELSE /\ headers' = InitHeaders
            /\ hdrI' = 1
            /\ pc' = "headers"
            /\ UNCHANGED response
  /\ UNCHANGED <<routes, request, fragments, params, calls, loaders, join,
                 stream, body, node, components, dataPromise, settleOrder>>
  /\ UNCHANGED <<pumpVars, suspenseVars, sortVars, genVars>>

Null == [kind |-> "null"]

\* what a headers function returns: an entry every fragment emits under the
\* same name, an entry without a value, an entry named as the initial header
HeaderEntries(id) ==
  <<<<"Set-Cookie", id>>, <<"X-Unset", Null>>, <<"Content-Type", id>>>>

RECURSIVE SetEntries(_, _)
\* a merge that uses headers.set: an entry replaces those of the same name
SetEntries(hs, h) ==
  IF h = <<>> THEN hs
  ELSE SetEntries(IF Head(h)[2] # Null
                    THEN Append(SelectSeq(hs, LAMBDA e : e[1] # Head(h)[1]), Head(h))
                    ELSE hs,
                  Tail(h))

RECURSIVE AppendEntries(_, _)
\* for (const [k, v] of h) if (v != null) headers.append(k, v)
AppendEntries(hs, h) ==
  IF h = <<>> THEN hs
  ELSE AppendEntries(IF Head(h)[2] # Null THEN Append(hs, Head(h)) ELSE hs,
                     Tail(h))

HeaderOutcomes == {"entries", "nothing", "throwResponse", "throwError"}

\* a lookup that reads the result array from its other end
LoaderDataMirrored(ls, k) == ls[Len(ls) + 1 - k].value

\* the data mergeFragmentHeaders and the fold read for fragment k
LoaderData(ls, k) == ls[k].value

\* one turn of the loop of mergeFragmentHeaders, its await included
MergeStep ==
  /\ pc = "headers"
  /\ hdrI <= Len(fragments)
  /\ LET frag == fragments[hdrI]
     IN  IF ~frag.mod.headers
           THEN /\ hdrI' = hdrI + 1
                /\ UNCHANGED <<calls, headers, pc, response>>
           ELSE \E out \in HeaderOutcomes :
                  /\ calls' = Append(calls,
                                     Call("headers", frag.id,
                                          [ctx |-> Ctx(request, params),
                                           loaderData |-> LoaderData(loaders, hdrI)],
                                          out))
                  /\ CASE out = "entries" ->
                              /\ headers' = AppendEntries(headers, HeaderEntries(frag.id))
                              /\ hdrI' = hdrI + 1
                              /\ UNCHANGED <<pc, response>>
                         [] out = "nothing" ->
                              /\ hdrI' = hdrI + 1
                              /\ UNCHANGED <<headers, pc, response>>
                         [] OTHER ->
                              /\ response' = Catch(Raised("headers", frag.id, out))
                              /\ pc' = "returned"
                              /\ UNCHANGED <<headers, hdrI>>
  /\ UNCHANGED <<routes, request, fragments, params, loaders, join, stream,
                 body, node, components, dataPromise, settleOrder>>
  /\ UNCHANGED <<pumpVars, suspenseVars, sortVars, genVars>>

\* what a component does when called: it returns an element, returns a
\* promise (an async component), or throws
ComponentOutcomes == {"html", "promise", "throwResponse", "throwError"}

\* the element a component of fragment id renders around its children
Html(id, children) == [node |-> "html", frag |-> id, children |-> children]
\* into(promise): the node of an async component
IntoPromise(id, children) == [node |-> "promise", frag |-> id, children |-> children]

RECURSIVE ReduceRightDropping(_, _, _, _, _)
\* a fold in which a fragment without a component drops what is inside it
ReduceRightDropping(frags, ls, outs, k, st) ==
  IF k = 0 \/ st.thrown # Nothing THEN st
  ELSE IF ~frags[k].mod.default
    THEN ReduceRightDropping(frags, ls, outs, k - 1, [st EXCEPT !.acc = EmptyNode])
  ELSE LET id == frags[k].id
           call == Call("default", id,
                        [loaderData |-> LoaderData(ls, k), children |-> st.acc],
                        outs[k])
           called == [st EXCEPT !.calls = Append(st.calls, call)]
       IN  ReduceRightDropping(frags, ls, outs, k - 1,
             CASE outs[k] = "html" ->
                    [called EXCEPT !.acc = Html(id, st.acc)]
               [] outs[k] = "promise" ->
                    [called EXCEPT !.acc = IntoPromise(id, st.acc),
                                   !.promises = @ \cup {k}]
               [] OTHER ->
                    [called EXCEPT !.thrown = Raised("default", id, outs[k])])

RECURSIVE ReduceRightTwice(_, _, _, _, _)
\* a fold that puts the element of every component around itself once more
ReduceRightTwice(frags, ls, outs, k, st) ==
  IF k = 0 \/ st.thrown # Nothing THEN st
  ELSE IF ~frags[k].mod.default THEN ReduceRightTwice(frags, ls, outs, k - 1, st)
  ELSE LET id == frags[k].id
           call == Call("default", id,
                        [loaderData |-> LoaderData(ls, k), children |-> st.acc],
                        outs[k])
           called == [st EXCEPT !.calls = Append(st.calls, call)]
       IN  ReduceRightTwice(frags, ls, outs, k - 1,
             CASE outs[k] = "html" ->
                    [called EXCEPT !.acc = Html(id, Html(id, st.acc))]
               [] outs[k] = "promise" ->
                    [called EXCEPT !.acc = IntoPromise(id, Html(id, st.acc)),
                                   !.promises = @ \cup {k}]
               [] OTHER ->
                    [called EXCEPT !.thrown = Raised("default", id, outs[k])])

RECURSIVE ReduceRight(_, _, _, _, _)
\* fragments.reduceRight(..., into("")) from index k down, until a component throws
ReduceRight(frags, ls, outs, k, st) ==
  IF k = 0 \/ st.thrown # Nothing THEN st
  ELSE IF ~frags[k].mod.default THEN ReduceRight(frags, ls, outs, k - 1, st)
  ELSE LET id == frags[k].id
           call == Call("default", id,
                        [loaderData |-> LoaderData(ls, k), children |-> st.acc],
                        outs[k])
           called == [st EXCEPT !.calls = Append(st.calls, call)]
       IN  ReduceRight(frags, ls, outs, k - 1,
             CASE outs[k] = "html" ->
                    [called EXCEPT !.acc = Html(id, st.acc)]
               [] outs[k] = "promise" ->
                    [called EXCEPT !.acc = IntoPromise(id, st.acc),
                                   !.promises = @ \cup {k}]
               [] OTHER ->
                    [called EXCEPT !.thrown = Raised("default", id, outs[k])])

Preamble == "<!doctype html>"

\* encoder.encode(text): the bytes of a text
Encode(text) == [bytes |-> text]

\* the chunks an element yields around its children: `<${tag}${attrs}>`, `</${tag}>`
Open(id) == <<"<", id, ">">>
Close(id) == <<"</", id, ">">>

\* what a generator does next: it yields a chunk, or awaits the promise of
\* the async component of the fragment at index k
Yield(chunk) == [op |-> "yield", chunk |-> chunk]
Await(k) == [op |-> "await", k |-> k]

RECURSIVE Text(_, _)
\* node.text: what the generator of a composed node does, in order; into("")
\* yields the empty string, into(promise) awaits before it yields anything
Text(frags, n) ==
  IF n.node = "empty" THEN <<Yield("")>>
  ELSE LET k == CHOOSE i \in 1..Len(frags) : frags[i].id = n.frag
           element == <<Yield(Open(n.frag))>> \o Text(frags, n.children)
                        \o <<Yield(Close(n.frag))>>
       IN  IF n.node = "promise" THEN <<Await(k)>> \o element ELSE element

\* a writer that puts what it is given before what it was given earlier
WrittenFirst(b, chunk) == <<chunk>> \o b

\* a writer that drops what it is given once the stream holds two chunks
WrittenDropping(b, chunk) == IF Len(b) >= 2 THEN b ELSE Append(b, chunk)

\* writer.write(chunk): the chunks given to the writer so far
Written(b, chunk) == Append(b, chunk)

\* a close that leaves the stream as it is
WriterCloseNever(st) == st

\* writer.close(): an open stream closes, an errored one stays errored
WriterClose(st) == IF st = "open" THEN "closed" ELSE st

\* a merge that routeResponse leaves as soon as it has begun
HeadersBegun(i, frags) == i >= 1

\* await mergeFragmentHeaders(...): its loop has gone through the chain
HeadersMerged(i, frags) == i > Len(frags)

\* a routeResponse that returns once startStreaming has ended
AwaitPump(p) ==
  IF p \in {"normal", "readFailed", "writeFailed"} THEN "returned" ELSE "streaming"

\* waitUntil(startStreaming()): routeResponse goes on to its return
WaitUntil(p) == "returned"

\* routeResponse from the end of mergeFragmentHeaders to its return: the
\* stream, the fold, toReadableStream, the first write of startStreaming,
\* the Response
Compose ==
  /\ pc = "headers"
  /\ HeadersMerged(hdrI, fragments)
  /\ stream' = "open"
  /\ \E outs \in [1..Len(fragments) -> ComponentOutcomes] :
       LET st == ReduceRight(fragments, loaders, outs, Len(fragments),
                             [acc |-> EmptyNode, calls |-> <<>>,
                              promises |-> {}, thrown |-> Nothing])
       IN  /\ calls' = calls \o st.calls
           /\ components' = [k \in 1..Len(fragments) |->
                               IF k \in st.promises THEN Pending ELSE NoPromise]
           /\ IF st.thrown # Nothing
                THEN /\ response' = Catch(st.thrown)
                     /\ pc' = "returned"
                     /\ UNCHANGED <<node, body, source, readable, pump>>
                ELSE /\ node' = st.acc
                     /\ source' = Text(fragments, st.acc)
                     /\ readable' = "readable"
                     /\ body' = Written(body, Encode(Preamble))
                     /\ pump' = "writing"
                     /\ pc' = WaitUntil("writing")
                     /\ response' = StreamResponse(headers)
  /\ UNCHANGED <<routes, request, fragments, params, loaders, join, hdrI,
                 headers, dataPromise, settleOrder, queue, closes>>
  /\ UNCHANGED <<suspenseVars, sortVars, genVars>>

\* the promise of the async component of fragment k settles
ComponentSettle(k) ==
  /\ k \in DOMAIN components
  /\ components[k].state = "pending"
  /\ \E out \in {"html", "rejectResponse", "rejectError"} :
       components' = [components EXCEPT ![k] =
                        IF out = "html"
                          THEN Fulfilled(Html(fragments[k].id, EmptyNode))
                          ELSE Rejected(Raised("default", fragments[k].id, out))]
  /\ UNCHANGED <<routes, request, pc, fragments, params, calls, loaders, join,
                 hdrI, headers, stream, body, node, dataPromise, settleOrder,
                 response>>
  /\ UNCHANGED <<pumpVars, suspenseVars, sortVars, genVars>>

\* a dataResponse that encodes whatever the function returned
DataResponseJson(p) ==
  IF p.state = "rejected" THEN Catch(p.value) ELSE ResponseJson(p.value)

\* dataResponse resumes after await f(ctx)
DataResponse(p) ==
  IF p.state = "rejected" THEN Catch(p.value)
  ELSE IF p.value.kind = "Response" THEN p.value
  ELSE ResponseJson(p.value)

\* the promise dataResponse awaits settles and handle returns
DataSettle ==
  /\ pc = "data"
  /\ \E out \in SettleOutcomes :
       LET p == Settled(dataPromise.fn, dataPromise.frag, out)
       IN  /\ dataPromise' = p
           /\ response' = DataResponse(p)
  /\ pc' = "returned"
  /\ UNCHANGED <<routes, request, fragments, params, calls, loaders, join,
                 hdrI, headers, stream, body, node, components, settleOrder>>
  /\ UNCHANGED <<pumpVars, suspenseVars, sortVars, genVars>>

\* ----------------------------------------------------------- the streaming
\* one turn of the loop of start(controller) in toReadableStream: the next
\* chunk of the generator is enqueued; at its end the controller is closed,
\* at a rejection it is errored and what was enqueued is dropped
Drain ==
  /\ readable = "readable"
  /\ IF source = <<>>
       THEN /\ readable' = "closed"
            /\ UNCHANGED <<source, queue>>
       ELSE LET item == Head(source)
            IN  IF item.op = "yield"
                  THEN /\ queue' = Append(queue, Encode(item.chunk))
                       /\ source' = Tail(source)
                       /\ UNCHANGED readable
                  ELSE /\ components[item.k].state # "pending"
                       /\ IF components[item.k].state = "fulfilled"
                            THEN /\ source' = Tail(source)
                                 /\ UNCHANGED <<queue, readable>>
                            ELSE /\ source' = <<>>
                                 /\ queue' = <<>>
                                 /\ readable' = "errored"
  /\ UNCHANGED <<routes, request, pc, fragments, params, calls, loaders, join,
                 hdrI, headers, stream, body, node, components, dataPromise,
                 settleOrder, response, pump, closes>>
  /\ UNCHANGED <<suspenseVars, sortVars, genVars>>

\* startStreaming resumes after await reader.read(): it writes the chunk, or
\* leaves the loop at done or at a rejection and runs its finally clause
Read ==
  /\ pump = "reading"
  /\ IF queue # <<>>
       THEN /\ body' = Written(body, Head(queue))
            /\ queue' = Tail(queue)
            /\ pump' = "writing"
            /\ UNCHANGED <<stream, closes>>
       ELSE /\ readable \in {"closed", "errored"}
            /\ pump' = IF readable = "closed" THEN "normal" ELSE "readFailed"
            /\ stream' = WriterClose(stream)
            /\ closes' = closes + 1
            /\ UNCHANGED <<body, queue>>
  /\ UNCHANGED <<routes, request, pc, fragments, params, calls, loaders, join,
                 hdrI, headers, node, components, dataPromise, settleOrder,
                 response, source, readable>>
  /\ UNCHANGED <<suspenseVars, sortVars, genVars>>

\* startStreaming resumes after await writer.write(...): the write went
\* through, or it rejected because the client is gone, the stream is
\* errored and the finally clause runs
WriteSettle ==
  /\ pump = "writing"
  /\ \/ /\ pump' = "reading"
        /\ UNCHANGED <<stream, closes>>
     \/ /\ pump' = "writeFailed"
        /\ stream' = WriterClose("errored")
        /\ closes' = closes + 1
  /\ UNCHANGED <<routes, request, pc, fragments, params, calls, loaders, join,
                 hdrI, headers, body, node, components, dataPromise,
                 settleOrder, response, source, readable, queue>>
  /\ UNCHANGED <<suspenseVars, sortVars, genVars>>

Next ==
  \/ Handle
  \/ \E k \in 1..MaxChain : LoaderSettle(k)
  \/ AwaitLoaders
  \/ MergeStep
  \/ Compose
  \/ \E k \in 1..MaxChain : ComponentSettle(k)
  \/ DataSettle

Spec == Init /\ [][Next]_vars

\* a module of a document: a component and nothing else
DocMod == [loader |-> FALSE, action |-> FALSE, default |-> TRUE, headers |-> FALSE]

\* one route /:id whose chain is made of modules exporting a component only
\* or everything, requested at /a
PumpInit ==
  /\ routes \in {<<Route(<<":id">>, ChainOf(1, shape))>> :
                   shape \in UNION {[1..n -> {DocMod, FullMod}] : n \in 1..MaxChain}}
  /\ request \in Requests({<<"a">>})
  /\ InitRest
  /\ NoSort
  /\ NoGen

\* a request and the streaming of its document
PumpNext ==
  \/ Handle
  \/ \E k \in 1..MaxChain : LoaderSettle(k)
  \/ AwaitLoaders
  \/ MergeStep
  \/ Compose
  \/ \E k \in 1..MaxChain : ComponentSettle(k)
  \/ DataSettle
  \/ Drain
  \/ Read
  \/ WriteSettle

PumpSpec == PumpInit /\ [][PumpNext]_vars

\* ---------------------------------------------------------------- suspense
\* a randomUUID that returns the same value at every call
SameUUID(n) == 1

\* crypto.randomUUID() after n calls: a value no earlier call returned
RandomUUID(n) == n + 1

\* `suspense-${crypto.randomUUID()}`
SuspenseId(u) == <<"suspense-", u>>

\* const templateId = crypto.randomUUID(): the value without a prefix
TemplateId(u) == <<"", u>>

\* the keys of a map
Keys(m) == {m[i] : i \in 1..Len(m)}

\* suspended.set(id, promise): a new key comes last, a known key keeps its place
MapSet(m, id) == IF id \in Keys(m) THEN m ELSE Append(m, id)

\* suspended.delete(id)
MapDelete(m, id) == SelectSeq(m, LAMBDA k : k # id)

\* the fallback given to the n-th Suspense of render r
Fallback(r, n) == [node |-> "fallback", render |-> r, n |-> n]

\* (await el).toPromise(): the markup of the deferred content under key id
Content(id) == <<"html", id>>

\* <As id={id} {...props}>{fallback}</As>
Element(as, id, fallback) == [tag |-> as, id |-> id, children |-> fallback]

\* Suspense(props), called by render r: the id, the promise begun by
\* children(), suspended.set, the element around the fallback
Declare(r) ==
  /\ Len(elements) < MaxDeclared
  /\ drain[r] \in {"none", "empty", "script"}
  /\ LET id == SuspenseId(RandomUUID(minted))
     IN  /\ minted' = minted + 1
         /\ started' = started \cup {id}
         /\ deferred' = [k \in DOMAIN deferred \cup {id} |->
                           IF k = id THEN Pending ELSE deferred[k]]
         /\ suspended' = MapSet(suspended, id)
         /\ elements' = Append(elements,
                               Element("div", id, Fallback(r, declared[r] + 1)))
  /\ declared' = [declared EXCEPT ![r] = @ + 1]
  /\ UNCHANGED <<drain, race, patches, flushed, settleSeq>>
  /\ UNCHANGED <<routerVars, pumpVars, sortVars, genVars>>

\* the promise begun by the i-th call of Suspense settles: with [id, html],
\* or rejected
DeferredSettle(i) ==
  /\ i <= Len(elements)
  /\ deferred[elements[i].id].state = "pending"
  /\ LET id == elements[i].id IN
     /\ \/ deferred' = [deferred EXCEPT ![id] = Fulfilled(<<id, Content(id)>>)]
        \/ deferred' = [deferred EXCEPT ![id] = Rejected(UserError("children", id))]
     /\ settleSeq' = Append(settleSeq, id)
  /\ UNCHANGED <<suspended, minted, started, elements, declared, drain, race,
                 patches, flushed>>
  /\ UNCHANGED <<routerVars, pumpVars, sortVars, genVars>>

\* Resolve(props), called by render r: nothing when the map is empty, else
\* the generator that drains it
ResolveCall(r) ==
  /\ drain[r] = "none"
  /\ drain' = [drain EXCEPT ![r] = IF Len(suspended) = 0 THEN "empty" ELSE "script"]
  /\ UNCHANGED <<suspended, deferred, minted, started, elements, declared, race,
                 patches, flushed, settleSeq>>
  /\ UNCHANGED <<routerVars, pumpVars, sortVars, genVars>>

\* the <script> block that defines the resolved-data element
Script == [chunk |-> "script"]

\* a patch whose marker names the template as its target
PatchSwapped(templateId, id, element) ==
  [chunk |-> "patch", template |-> templateId, element |-> element,
   to |-> templateId, from |-> id]

\* <template id=templateId>element</template><resolved-data to=id from=templateId>
Patch(templateId, id, element) ==
  [chunk |-> "patch", template |-> templateId, element |-> element,
   to |-> id, from |-> templateId]

\* the elements Suspense returned to render r, in the order of the calls
ElementsOf(r) == SelectSeq(elements, LAMBDA e : e.children.render = r)

\* Promise.race(suspended.values()), begun when the map held the keys among,
\* those in settledBefore settled already
Race(templateId, among, settledBefore) ==
  [template |-> templateId, among |-> among, settledBefore |-> settledBefore]

\* the positions in among of the promises that were settled when the race began
Early(rc) == {i \in 1..Len(rc.among) : rc.among[i] \in rc.settledBefore}

\* the positions in settleSeq of the promises of the race
Late(rc, seq) == {j \in 1..Len(seq) : seq[j] \in Keys(rc.among)}

\* the key of the promise the race settles with: the first in the order of
\* the map of those settled at its beginning, else the first to settle
Winner(rc, seq) ==
  IF Early(rc) # {} THEN rc.among[Min(Early(rc))] ELSE seq[Min(Late(rc, seq))]

\* the generator of render r's Resolve runs to its next yield, await or end
ResolveStep(r) ==
  /\ CASE drain[r] = "empty" ->
            /\ flushed' = [flushed EXCEPT ![r] = ElementsOf(r)]
            /\ drain' = [drain EXCEPT ![r] = "done"]
            /\ UNCHANGED <<suspended, minted, race, patches>>
       [] drain[r] = "script" ->
            /\ flushed' = [flushed EXCEPT ![r] = ElementsOf(r)]
            /\ patches' = [patches EXCEPT ![r] = Append(@, Script)]
            /\ drain' = [drain EXCEPT ![r] = "loop"]
            /\ UNCHANGED <<suspended, minted, race>>
       [] drain[r] = "loop" ->
            IF Len(suspended) > 0
              THEN /\ minted' = minted + 1
                   /\ race' = [race EXCEPT ![r] =
                        Race(TemplateId(RandomUUID(minted)), suspended,
                             {k \in Keys(suspended) : deferred[k].state # "pending"})]
                   /\ drain' = [drain EXCEPT ![r] = "racing"]
                   /\ UNCHANGED <<suspended, patches, flushed>>
              ELSE /\ drain' = [drain EXCEPT ![r] = "done"]
                   /\ UNCHANGED <<suspended, minted, race, patches, flushed>>
       [] drain[r] = "racing" ->
            /\ Early(race[r]) # {} \/ Late(race[r], settleSeq) # {}
            /\ LET p == deferred[Winner(race[r], settleSeq)]
               IN  IF p.state = "rejected"
                     THEN /\ drain' = [drain EXCEPT ![r] = "failed"]
                          /\ UNCHANGED <<suspended, patches>>
                     ELSE /\ suspended' = MapDelete(suspended, p.value[1])
                          /\ patches' = [patches EXCEPT ![r] =
                               Append(@, Patch(race[r].template, p.value[1],
                                               p.value[2]))]
                          /\ drain' = [drain EXCEPT ![r] = "loop"]
            /\ UNCHANGED <<minted, race, flushed>>
       [] OTHER -> FALSE
  /\ UNCHANGED <<deferred, started, elements, declared, settleSeq>>
  /\ UNCHANGED <<routerVars, pumpVars, sortVars, genVars>>

\* renders of one process; no request is being routed
SuspenseInit ==
  /\ routes = <<>>
  /\ request = [url |-> <<"a">>, method |-> "GET", fx |-> FALSE]
  /\ InitRest
  /\ NoSort
  /\ NoGen

SuspenseNext ==
  \/ \E r \in Renders : Declare(r)
  \/ \E i \in 1..MaxDeclared : DeferredSettle(i)
  \/ \E r \in Renders : ResolveCall(r)
  \/ \E r \in Renders : ResolveStep(r)

SuspenseSpec == SuspenseInit /\ [][SuspenseNext]_vars

\* -------------------------------------------------------------------- sort
\* the segments of route names: literals, parameters, the catch-all
Segments == {"a", "b", "$id", "$x", "$"}

\* segment.startsWith("$")
StartsWithDollar(seg) == seg \in {"$id", "$x", "$"}

\* segments(a) of the route names a file can have: dot-separated segments,
\* the catch-all being the last one
RouteNames ==
  UNION {{name \in [1..n -> Segments] : \A i \in 1..(n - 1) : name[i] # "$"} :
           n \in 1..MaxSegments}

\* a.endsWith(".$"): the last segment is the catch-all and a dot precedes it
EndsWithDotDollar(a) == Len(a) >= 2 /\ a[Len(a)] = "$"

RECURSIVE CompareFrom(_, _, _)
\* the loop of bySpecificity from index i
CompareFrom(a, b, i) ==
  IF i > Len(a) THEN 0
  ELSE IF a[i] = b[i] THEN CompareFrom(a, b, i + 1)
  ELSE IF StartsWithDollar(a[i]) THEN 1
  ELSE IF StartsWithDollar(b[i]) THEN -1
  ELSE CompareFrom(a, b, i + 1)

\* bySpecificity(a, b)
BySpecificity(a, b) ==
  IF Len(a) = Len(b)
    THEN IF EndsWithDotDollar(a) THEN 1
         ELSE IF EndsWithDotDollar(b) THEN -1
         ELSE CompareFrom(a, b, 1)
    ELSE Len(b) - Len(a)

\* the sort calls bySpecificity on two route names
Compare ==
  /\ ~compared.done
  /\ compared' = [done |-> TRUE, value |-> BySpecificity(names[1], names[2])]
  /\ UNCHANGED names
  /\ UNCHANGED <<routerVars, pumpVars, suspenseVars, genVars>>

\* any two route names
SortInit ==
  /\ routes = <<>>
  /\ request = [url |-> <<"a">>, method |-> "GET", fx |-> FALSE]
  /\ InitRest
  /\ names \in RouteNames \X RouteNames
  /\ compared = NotCompared
  /\ NoGen

SortNext == Compare

SortSpec == SortInit /\ [][SortNext]_vars

\* --------------------------------------------------------------- generator
\* the segments of file names: literals, a parameter, the catch-all, a
\* pathless segment, and optional ones in parentheses
PathSegments == {"a", "b", "$id", "$", "_l", "(a)", "($id)", "($)"}

\* routePath.split(unescapedDotRegex) of the names a file can have
RoutePaths == UNION {[1..n -> PathSegments] : n \in 1..MaxSegments}

\* value.startsWith("_")
StartsWithUnderscore(value) == value = "_l"

\* segment.startsWith("(") && segment.endsWith(")")
IsOptional(segment) == segment \in {"(a)", "($id)", "($)"}

\* isOptional ? segment.slice(1, -1) : segment
ActualSegment(segment) ==
  CASE segment = "(a)" -> "a"
    [] segment = "($id)" -> "$id"
    [] segment = "($)" -> "$"
    [] OTHER -> segment

\* what the loop appends after the "/" for a segment that is no catch-all
Piece(segment) ==
  LET actualSegment == ActualSegment(segment)
  IN  IF StartsWithDollar(actualSegment)
        THEN IF IsOptional(segment) THEN ":id?" ELSE ":id"
        ELSE IF IsOptional(segment) THEN "(a)?" ELSE actualSegment

RECURSIVE PatternNoBreak(_, _)
\* a loop that goes on after a catch-all
PatternNoBreak(segs, i) ==
  IF i > Len(segs) THEN <<>>
  ELSE IF ActualSegment(segs[i]) = "$"
    THEN <<"/", "*">> \o PatternNoBreak(segs, i + 1)
    ELSE <<"/", Piece(segs[i])>> \o PatternNoBreak(segs, i + 1)

RECURSIVE PatternFrom(_, _)
\* the loop of generatePatternString from the segment at index i: what it
\* appends to the pattern, piece by piece
PatternFrom(segs, i) ==
  IF i > Len(segs) THEN <<>>
  ELSE IF ActualSegment(segs[i]) = "$" THEN <<"/", "*">>
  ELSE <<"/", Piece(segs[i])>> \o PatternFrom(segs, i + 1)

\* the segments generatePatternString keeps
PathOf(path) == SelectSeq(path, LAMBDA value : ~StartsWithUnderscore(value))

\* generatePatternString(routePath), as the pieces it is concatenated from
GeneratePatternString(path) ==
  LET segs == PathOf(path)
  IN  IF Len(segs) = 0 THEN <<"/">>
      ELSE IF Len(segs) = 1 /\ segs[1] = "$" THEN <<"/", "*">>
      ELSE PatternFrom(segs, 1)

\* generatePatternString is called on a route name
GeneratePattern ==
  /\ ~pattern.done
  /\ pattern' = [done |-> TRUE, value |-> GeneratePatternString(routePath)]
  /\ UNCHANGED <<routePath, files, table>>
  /\ UNCHANGED <<routerVars, pumpVars, suspenseVars, sortVars>>

\* any route name
PatternInit ==
  /\ routes = <<>>
  /\ request = [url |-> <<"a">>, method |-> "GET", fx |-> FALSE]
  /\ InitRest
  /\ NoSort
  /\ routePath \in RoutePaths
  /\ pattern = NotGenerated
  /\ files = <<>> /\ table = NoTable

PatternNext == GeneratePattern

PatternSpec == PatternInit /\ [][PatternNext]_vars

\* the segments of the names of a routes folder
FolderSegments == {"a", "$"}

\* the names of the files of a routes folder, without their extension
FileNames == UNION {[1..n -> FolderSegments] : n \in 1..MaxSegments}

\* what readdir can return: different names, in any order
Folders ==
  UNION {{f \in [1..n -> FileNames] :
            \A i, j \in 1..n : f[i] = f[j] => i = j} : n \in 1..MaxFiles}

\* comparefn(a, b) of the sort
Order(a, b) == BySpecificity(a, b)

RECURSIVE RunFrom(_, _, _)
\* the sort looks for the run the array begins with: the index it ends at
RunFrom(a, idx, descending) ==
  IF idx > Len(a) THEN Len(a)
  ELSE LET order == Order(a[idx], a[idx - 1])
       IN  IF (descending /\ order >= 0) \/ (~descending /\ order < 0)
             THEN idx - 1
             ELSE RunFrom(a, idx + 1, descending)

\* a sequence back to front
Reverse(a) == [i \in 1..Len(a) |-> a[Len(a) + 1 - i]]

RECURSIVE BinarySearch(_, _, _, _)
\* the place of the pivot among a[left .. right - 1]
BinarySearch(a, pivot, left, right) ==
  IF left >= right THEN left
  ELSE LET mid == left + ((right - left) \div 2)
       IN  IF Order(pivot, a[mid]) < 0
             THEN BinarySearch(a, pivot, left, mid)
             ELSE BinarySearch(a, pivot, mid + 1, right)

RECURSIVE InsertFrom(_, _)
\* the sort inserts the elements from index start on into what precedes them
InsertFrom(a, start) ==
  IF start > Len(a) THEN a
  ELSE LET pivot == a[start]
           at == BinarySearch(a, pivot, 1, start)
       IN  InsertFrom(SubSeq(a, 1, at - 1) \o <<pivot>> \o SubSeq(a, at, start - 1)
                        \o SubSeq(a, start + 1, Len(a)),
                      start + 1)

\* a sort that leaves the names as readdir listed them
Unsorted(a) == a

\* .sort(bySpecificity) of a short array: the run it begins with is made
\* ascending, the rest is inserted by binary search
SortBySpecificity(a) ==
  IF Len(a) < 2 THEN a
  ELSE LET descending == Order(a[2], a[1]) < 0
           run == RunFrom(a, 3, descending)
           ascending == IF descending
                          THEN Reverse(SubSeq(a, 1, run)) \o SubSeq(a, run + 1, Len(a))
                          ELSE a
       IN  InsertFrom(ascending, run + 1)

\* file.startsWith(`${prefix}.`)
StartsWithDot(file, prefix) ==
  Len(prefix) < Len(file) /\ SubSeq(file, 1, Len(prefix)) = prefix

\* $document = { id: "", mod: document }
Document == <<>>

\* the fragments of the route item of a file
FragmentsOf(rs, file) ==
  <<Document>>
    \o Reverse(SelectSeq(rs, LAMBDA prefix : StartsWithDot(file, prefix)))
    \o <<file>>

\* the files no other file is under, each with its pattern and fragments
RouteItemsOf(rs) ==
  LET leaves == SelectSeq(rs, LAMBDA file :
                  \A k \in 1..Len(rs) : ~StartsWithDot(rs[k], file))
  IN  [i \in 1..Len(leaves) |->
         [file |-> leaves[i],
          pattern |-> GeneratePatternString(leaves[i]),
          fragments |-> FragmentsOf(rs, leaves[i])]]

\* generateRouter: the names are sorted, the route items are built from
\* the sorted names
GenerateRouter ==
  /\ table.stage = "files"
  /\ LET rs == SortBySpecificity(files)
     IN  table' = [stage |-> "items", routes |-> rs, items |-> RouteItemsOf(rs)]
  /\ UNCHANGED <<routePath, pattern, files>>
  /\ UNCHANGED <<routerVars, pumpVars, suspenseVars, sortVars>>

\* any routes folder
GenInit ==
  /\ routes = <<>>
  /\ request = [url |-> <<"a">>, method |-> "GET", fx |-> FALSE]
  /\ InitRest
  /\ NoSort
  /\ routePath = <<>> /\ pattern = NotGenerated
  /\ files \in Folders
  /\ table = NoTable

GenNext == GenerateRouter

GenSpec == GenInit /\ [][GenNext]_vars


\* ================================================================== claims
\* the routes whose pattern matches the request
Matching == {r \in 1..Len(routes) : Exec(routes[r].pattern, request.url).matched}

\* the chain handle dispatches on when route r is the one selected
ChainFor(r) == Sliced(request, routes[r].fragments)

IsGet == request.method = "GET"
HasLeaf == fragments # <<>>
Leaf == fragments[Len(fragments)]

\* the calls made so far to the function fn
CallsTo(fn) == {c \in 1..Len(calls) : calls[c].fn = fn}
Thrown(c) == calls[c].out \in {"throwResponse", "throwError"}

\* no function called so far threw and no awaited promise rejected
NoFailure ==
  /\ \A c \in 1..Len(calls) : ~Thrown(c)
  /\ \A k \in DOMAIN loaders : loaders[k].state # "rejected"
  /\ dataPromise.state # "rejected"

\* C1: handle selects the first route, in table order, whose pattern matches:
\* it goes on with that route's chain and path parameters and calls functions
\* of that route's fragments only, also when a later route matches too.
C1_FirstMatchWins ==
  (pc # "init" /\ Matching # {}) =>
    LET r == Min(Matching)
    IN  /\ fragments = ChainFor(r)
        /\ params = Exec(routes[r].pattern, request.url).groups
        /\ \A c \in 1..Len(calls) :
             /\ calls[c].frag[1] = r
             /\ calls[c].fn = "loader" => calls[c].arg.params = params

\* two routes match with different parameters and the first one was served
C1_Witness ==
  /\ pc = "returned"
  /\ \E r1, r2 \in Matching :
       /\ r1 < r2
       /\ Exec(routes[r1].pattern, request.url).groups
            # Exec(routes[r2].pattern, request.url).groups
  /\ calls # <<>>
  /\ response.status = 200

\* the leaf of the matched chain lacks the handler the method requires
LacksHandler ==
  \/ ~HasLeaf
  \/ IF IsGet THEN ~Leaf.mod.default /\ ~Leaf.mod.loader ELSE ~Leaf.mod.action

\* C2: when no pattern matches, or the leaf lacks the handler the method
\* requires, handle returns 404 and calls no function of any fragment.
C2_NotFound ==
  (pc # "init" /\ (Matching = {} \/ LacksHandler)) =>
    /\ pc = "returned"
    /\ response = NullResponse(404)
    /\ calls = <<>>
    /\ stream = "none"

\* a POST to a route whose leaf has a component and a loader but no action
C2_Witness ==
  /\ pc = "returned"
  /\ Matching # {}
  /\ HasLeaf
  /\ ~IsGet
  /\ Leaf.mod.default /\ Leaf.mod.loader /\ ~Leaf.mod.action
  /\ response.status = 404

\* C3: a GET whose leaf has a component is answered by the streamed document,
\* status 200 and Content-Type text/html, unless a function fails; the data
\* path is not taken even when the leaf has a loader: the loader's value is
\* the loaderData of the leaf's component.
C3_ComponentFirst ==
  (pc # "init" /\ Matching # {} /\ IsGet /\ HasLeaf /\ Leaf.mod.default) =>
    /\ dataPromise = NoPromise
    /\ response.by # <<"router", "json">>
    /\ (pc = "returned" /\ NoFailure) =>
         /\ response.by = <<"router", "stream">>
         /\ response.status = 200
         /\ response.headers[1] = <<"Content-Type", "text/html">>
         /\ stream = "open"
         /\ \E c \in CallsTo("default") :
              /\ calls[c].frag = Leaf.id
              /\ Leaf.mod.loader =>
                   calls[c].arg.loaderData = Data("loader", Leaf.id)

\* the document was streamed for a leaf that has a loader too
C3_Witness ==
  /\ pc = "returned"
  /\ IsGet /\ HasLeaf
  /\ Leaf.mod.default /\ Leaf.mod.loader
  /\ NoFailure
  /\ response.status = 200
  /\ body = <<Encode(Preamble)>>

\* what dataResponse is to answer for the settled promise p
DataAnswerOk(p) ==
  IF p.value.kind = "Response"
    THEN response = p.value
    ELSE /\ response.status = 200
         /\ response.by = <<"router", "json">>
         /\ response.body = <<"json", p.value.by>>

\* C4: a GET whose leaf has a loader and no component calls the leaf's loader
\* once and nothing else, opens no stream, and answers with the loader's
\* value JSON-encoded or with the Response the loader returned.
C4_LoaderOnly ==
  (pc # "init" /\ Matching # {} /\ IsGet /\ HasLeaf
     /\ ~Leaf.mod.default /\ Leaf.mod.loader) =>
    /\ Len(calls) = 1
    /\ calls[1].fn = "loader" /\ calls[1].frag = Leaf.id
    /\ stream = "none" /\ body = <<>>
    /\ loaders = <<>>
    /\ (pc = "returned" /\ dataPromise.state = "fulfilled") =>
         DataAnswerOk(dataPromise)

\* a loader-only leaf under a fragment that exports everything, answered in JSON
C4_Witness ==
  /\ pc = "returned"
  /\ IsGet /\ Len(fragments) = 2
  /\ ~Leaf.mod.default /\ Leaf.mod.loader
  /\ fragments[1].mod = FullMod
  /\ dataPromise.state = "fulfilled"
  /\ response.by = <<"router", "json">>

\* C5: a request that is not a GET calls the leaf's action once and nothing
\* else, and answers with its value JSON-encoded or the Response it returned;
\* without an action on the leaf the answer is 404 and nothing is called.
C5_ActionOnly ==
  (pc # "init" /\ Matching # {} /\ ~IsGet) =>
    /\ stream = "none" /\ body = <<>> /\ loaders = <<>>
    /\ IF HasLeaf /\ Leaf.mod.action
         THEN /\ Len(calls) = 1
              /\ calls[1].fn = "action" /\ calls[1].frag = Leaf.id
              /\ (pc = "returned" /\ dataPromise.state = "fulfilled") =>
                   DataAnswerOk(dataPromise)
         ELSE /\ calls = <<>>
              /\ pc = "returned"
              /\ response = NullResponse(404)

\* a POST whose action returned a Response, in a chain exporting everything
C5_Witness ==
  /\ pc = "returned"
  /\ ~IsGet /\ Len(fragments) = 2
  /\ fragments[1].mod = FullMod /\ Leaf.mod = FullMod
  /\ dataPromise.state = "fulfilled"
  /\ response = UserResponse("action", Leaf.id)


\* a GET for the document: the leaf of the chain has a component
DocPath == pc # "init" /\ Matching # {} /\ IsGet /\ HasLeaf /\ Leaf.mod.default

ThrownCalls == {c \in 1..Len(calls) : Thrown(c)}
RejectedLoaders == {k \in DOMAIN loaders : loaders[k].state = "rejected"}

\* every value thrown so far by a called function or by an awaited promise
Failures ==
  {Raised(calls[c].fn, calls[c].frag, calls[c].out) : c \in ThrownCalls}
    \cup {loaders[k].value : k \in RejectedLoaders}
    \cup (IF dataPromise.state = "rejected" THEN {dataPromise.value} ELSE {})

\* the positions in settleOrder of the loaders that rejected
RejectedAt == {i \in 1..Len(settleOrder) : settleOrder[i] \in RejectedLoaders}

\* the failure that came first: a throw at the call, else the first rejection
FirstFailure ==
  IF ThrownCalls # {}
    THEN LET c == Min(ThrownCalls)
         IN  Raised(calls[c].fn, calls[c].frag, calls[c].out)
  ELSE IF RejectedAt # {}
    THEN loaders[settleOrder[Min(RejectedAt)]].value
  ELSE IF dataPromise.state = "rejected" THEN dataPromise.value
  ELSE Nothing

\* the step in which handle returns
Returns == pc # "returned" /\ pc' = "returned"

\* no component was called, no stream opened, nothing written
NoStreaming == CallsTo("default") = {} /\ stream = "none" /\ body = <<>>

\* the Responses thrown so far by a loader of the chain or by the action
ThrownResponses ==
  {v \in Failures : v.kind = "Response" /\ v.by[1] \in {"loader", "action"}}

\* C6 as stated: when handle returns after a loader of the chain or the action
\* has thrown a Response, the response it returns is a Response they threw,
\* and no streaming was attempted.
C6_Original ==
  [][Returns =>
       (ThrownResponses' # {} => response' \in ThrownResponses' /\ NoStreaming')]_vars

\* C6 (amended): when the first failure of the request is a Response thrown by
\* a loader of the chain or by the action, handle returns that very Response,
\* with its own status, no component is called, no stream is opened and
\* nothing is written.
C6_FirstThrownResponse ==
  (pc = "returned" /\ FirstFailure.kind = "Response"
     /\ FirstFailure.by[1] \in {"loader", "action"}) =>
    /\ response = FirstFailure
    /\ response.status = 303
    /\ NoStreaming

\* the loader of the leaf rejected with a Response, then the loader of the
\* outer fragment with an Error, and handle returned the Response
C6_Witness ==
  /\ pc = "returned"
  /\ Len(settleOrder) = 2 /\ settleOrder[1] = 2
  /\ loaders[2] = Rejected(UserResponse("loader", fragments[2].id))
  /\ loaders[1] = Rejected(UserError("loader", fragments[1].id))
  /\ response = UserResponse("loader", fragments[2].id)

\* the components called so far that threw a Response at the call
ThrewResponse == {c \in CallsTo("default") : calls[c].out = "throwResponse"}

\* C7 as stated: a Response thrown by a component, at its call or while its
\* asynchronous output is produced, is the response handle returns.
C7_Original ==
  /\ \A c \in ThrewResponse :
       response = UserResponse("default", calls[c].frag)
  /\ \A k \in DOMAIN components :
       (components[k].state = "rejected" /\ components[k].value.kind = "Response")
         => response = components[k].value

\* C7 (amended): a Response a component throws at the moment it is called
\* during composition is the response handle returns; a Response with which
\* the promise of an async component rejects comes after handle has returned
\* and is not the response of the request.
C7_ComponentThrownResponse ==
  /\ \A c \in ThrewResponse :
       /\ pc = "returned"
       /\ response = UserResponse("default", calls[c].frag)
  /\ \A k \in DOMAIN components :
       components[k].state = "rejected" =>
         /\ pc = "returned"
         /\ response # components[k].value
         /\ ThrownCalls = {} => response = StreamResponse(headers)

\* the outer component threw a Response at its call, which handle returned,
\* and the promise of the async leaf component rejected with another one
C7_Witness ==
  /\ Len(fragments) = 2
  /\ \E c \in ThrewResponse : calls[c].frag = fragments[1].id
  /\ response = UserResponse("default", fragments[1].id)
  /\ components[2] = Rejected(UserResponse("default", fragments[2].id))

\* C8 as stated: when handle returns, any value that is no Response thrown by
\* a loader, an action, a headers function or a component makes the
\* response a 500 with no body.
C8_Original ==
  [][Returns =>
       ((\E v \in Failures' : v.kind = "Error") =>
          response' = NullResponse(500))]_vars

\* C8 (amended): when the first failure of the request is a value that is no
\* Response, thrown by a loader, an action, a headers function or a component
\* at its call, handle fulfils with status 500 and no body; once a route has
\* matched, handle always fulfils with a Response.
C8_FirstThrownError ==
  pc = "returned" =>
    /\ response.kind = "Response"
    /\ FirstFailure.kind = "Error" =>
         /\ response = NullResponse(500)
         /\ response.status = 500
         /\ "body" \notin DOMAIN response

\* a headers function threw an Error after the loaders fulfilled: 500
C8_Witness ==
  /\ pc = "returned"
  /\ FirstFailure.kind = "Error"
  /\ FirstFailure.by[1] = "headers"
  /\ response.status = 500

\* a loader of the chain failed, at its call or by rejecting
LoaderFailed ==
  \/ RejectedLoaders # {}
  \/ \E c \in ThrownCalls : calls[c].fn = "loader"

\* C9: once a loader of a document request has failed, no component and no
\* headers function is ever called and nothing is written, whatever the other
\* loaders do.
C9_LoaderFailureAborts ==
  (DocPath /\ LoaderFailed) =>
    /\ CallsTo("default") = {}
    /\ CallsTo("headers") = {}
    /\ stream = "none" /\ body = <<>>
    /\ pc = "returned" => response.by # <<"router", "stream">>

\* in a chain of two modules exporting everything the outer loader fulfilled,
\* the leaf's rejected, and handle returned
C9_Witness ==
  /\ DocPath /\ pc = "returned"
  /\ Len(fragments) = 2 /\ Len(loaders) = 2
  /\ fragments[1].mod = FullMod /\ fragments[2].mod = FullMod
  /\ loaders[1].state = "fulfilled"
  /\ loaders[2].state = "rejected"

\* the number of calls made to the loader of the fragment at index k
LoaderCallCount(k) ==
  Cardinality({c \in CallsTo("loader") : calls[c].frag = fragments[k].id})

\* C10 as stated: on a document request the loader of every fragment of the
\* chain is called exactly once.
C10_Original ==
  DocPath =>
    \A k \in 1..Len(fragments) : fragments[k].mod.loader => LoaderCallCount(k) = 1

\* a loader before index k threw at its call
ThrewBefore(k) ==
  \E c \in ThrownCalls :
    /\ calls[c].fn = "loader"
    /\ \E j \in 1..(k - 1) : calls[c].frag = fragments[j].id

\* C10 (amended): on a document request the loader of every fragment is called
\* at most once, and exactly once unless a loader earlier in the chain threw
\* at its call; all these calls are made before any result is awaited and
\* before any other function is called, each with the request context and
\* nothing else; and the join fulfils as soon as every loader has fulfilled,
\* whatever the order.
C10_LoadersConcurrent ==
  DocPath =>
    /\ \A k \in 1..Len(fragments) :
         fragments[k].mod.loader =>
           /\ LoaderCallCount(k) <= 1
           /\ ~ThrewBefore(k) => LoaderCallCount(k) = 1
    /\ \A c \in CallsTo("loader") :
         /\ calls[c].arg = Ctx(request, params)
         /\ \A d \in 1..Len(calls) : calls[d].fn # "loader" => c < d
    /\ (ThrownCalls = {} /\ \A k \in DOMAIN loaders : loaders[k].state = "fulfilled")
         => join.state = "fulfilled"
    /\ join.state = "pending" =>
         /\ pc = "loading"
         /\ \E k \in DOMAIN loaders : loaders[k].state = "pending"

\* the loader of the leaf settled before the loader of the outer fragment and
\* the join fulfilled
C10_Witness ==
  /\ DocPath
  /\ settleOrder = <<2, 1>>
  /\ join.state = "fulfilled"
  /\ pc = "headers"
  /\ Cardinality(CallsTo("loader")) = 2

\* the index in the chain of the fragment with the given id
IndexOf(id) == CHOOSE k \in 1..Len(fragments) : fragments[k].id = id

\* the value the loader of the fragment at index k resolves to
ExpectedData(k) ==
  IF fragments[k].mod.loader THEN Data("loader", fragments[k].id) ELSE Undefined

\* C11: whatever the order in which the loaders settle, the component and the
\* headers function of the fragment at index i are given as loaderData the
\* value the loader of that same fragment resolved to, undefined when the
\* fragment has no loader.
C11_LoaderDataByIndex ==
  \A c \in CallsTo("default") \cup CallsTo("headers") :
    LET k == IndexOf(calls[c].frag)
    IN  /\ loaders[k] = Fulfilled(ExpectedData(k))
        /\ calls[c].arg.loaderData = ExpectedData(k)

\* the loader of the leaf settled before the one of the outer fragment, and
\* the headers function and the component of both fragments were called
C11_Witness ==
  /\ pc = "returned"
  /\ settleOrder = <<2, 1>>
  /\ response.status = 200
  /\ \A k \in 1..2 : \A fn \in {"headers", "default"} :
       \E c \in CallsTo(fn) : calls[c].frag = fragments[k].id

\* what the component called in call c returned, as the fold keeps it
Result(c) ==
  IF calls[c].out = "promise"
    THEN IntoPromise(calls[c].frag, calls[c].arg.children)
    ELSE Html(calls[c].frag, calls[c].arg.children)

\* the calls of the components of the fragments inside the one at index k
InnerCalls(k) == {c \in CallsTo("default") : IndexOf(calls[c].frag) > k}

\* the renderable built from the fragments inside the one at index k
Inside(k) ==
  IF InnerCalls(k) = {} THEN EmptyNode
  ELSE Result(CHOOSE c \in InnerCalls(k) :
                \A d \in InnerCalls(k) :
                  IndexOf(calls[c].frag) <= IndexOf(calls[d].frag))

\* C12: components are called only once every loader has fulfilled, from the
\* leaf outwards and each at most once; the leaf's component gets empty
\* children, every other component the renderable built from the fragments
\* inside it, a fragment without a component passing it through unchanged;
\* the composed node is the renderable built from the whole chain.
C12_FoldLeafOutwards ==
  /\ CallsTo("default") # {} =>
       /\ join.state = "fulfilled"
       /\ Len(loaders) = Len(fragments)
       /\ \A k \in DOMAIN loaders : loaders[k].state = "fulfilled"
  /\ \A c, d \in CallsTo("default") :
       c < d => IndexOf(calls[c].frag) > IndexOf(calls[d].frag)
  /\ \A c \in CallsTo("default") :
       /\ fragments[IndexOf(calls[c].frag)].mod.default
       /\ calls[c].arg.children = Inside(IndexOf(calls[c].frag))
       /\ IndexOf(calls[c].frag) = Len(fragments) =>
            calls[c].arg.children = EmptyNode
  /\ (pc = "returned" /\ response.by = <<"router", "stream">>) =>
       /\ node = Inside(0)
       /\ \A k \in 1..Len(fragments) :
            fragments[k].mod.default =>
              \E c \in CallsTo("default") : calls[c].frag = fragments[k].id

\* both components of a chain of two were called, the leaf's first, and the
\* outer one was given what the leaf's component returned
C12_Witness ==
  /\ pc = "returned"
  /\ Len(fragments) = 2
  /\ response.status = 200
  /\ \E c, d \in CallsTo("default") :
       /\ c < d
       /\ calls[c].frag = fragments[2].id
       /\ calls[d].frag = fragments[1].id
       /\ calls[d].arg.children = Html(fragments[2].id, EmptyNode)
  /\ node = Html(fragments[1].id, Html(fragments[2].id, EmptyNode))

\* the entries with a value among those a headers function returned
NonNull(h) == SelectSeq(h, LAMBDA e : e[2] # Null)

RECURSIVE EntriesUpTo(_)
\* the entries with a value returned by the headers functions in the first n
\* calls, in the order of the calls
EntriesUpTo(n) ==
  IF n = 0 THEN <<>>
  ELSE EntriesUpTo(n - 1) \o
         (IF calls[n].fn = "headers" /\ calls[n].out = "entries"
            THEN NonNull(HeaderEntries(calls[n].frag)) ELSE <<>>)

\* C13: the headers of a document response are the initial Content-Type
\* text/html followed by every entry with a value that the headers functions
\* returned, in chain order; an entry of the same name as an earlier one is
\* added after it and replaces nothing.
C13_HeadersAppended ==
  headers # <<>> =>
    /\ headers = InitHeaders \o EntriesUpTo(Len(calls))
    /\ \A c, d \in CallsTo("headers") :
         c < d => IndexOf(calls[c].frag) < IndexOf(calls[d].frag)
    /\ (pc = "returned" /\ response.by = <<"router", "stream">>) =>
         /\ response.headers = headers
         /\ \A k \in 1..Len(fragments) :
              fragments[k].mod.headers =>
                \E c \in CallsTo("headers") : calls[c].frag = fragments[k].id

\* both fragments emitted Set-Cookie and Content-Type: the response has the
\* initial Content-Type and both values of each, in chain order
C13_Witness ==
  /\ pc = "returned"
  /\ Len(fragments) = 2
  /\ response.by = <<"router", "stream">>
  /\ response.headers =
       <<<<"Content-Type", "text/html">>,
         <<"Set-Cookie", fragments[1].id>>, <<"Content-Type", fragments[1].id>>,
         <<"Set-Cookie", fragments[2].id>>, <<"Content-Type", fragments[2].id>>>>

\* a byte of the body has been given to the writer
StreamingStarted == body # <<>>

\* the headers function of every fragment that has one has been called
HeadersCalled ==
  \A k \in 1..Len(fragments) :
    fragments[k].mod.headers =>
      \E c \in CallsTo("headers") : calls[c].frag = fragments[k].id

\* C14: when the preamble or any other byte of the body is written, the
\* headers function of every fragment has completed and the response carries
\* the merged headers; from the step in which streaming starts onwards no
\* headers function is called and the headers do not change.
C14_HeadersBeforeBody ==
  /\ [](StreamingStarted =>
          /\ hdrI > Len(fragments)
          /\ HeadersCalled
          /\ headers = InitHeaders \o EntriesUpTo(Len(calls))
          /\ response.headers = headers)
  /\ [][StreamingStarted' =>
          /\ headers' = headers
          /\ CallsTo("headers")' = CallsTo("headers")]_vars

\* both headers functions returned entries and the body has gone beyond
\* the preamble
C14_Witness ==
  /\ Len(fragments) = 2
  /\ Len(headers) = 5
  /\ Len(body) >= 3
  /\ response.headers = headers

\* C15: the first chunk given to the writer of a document response is the
\* encoded preamble <!doctype html>, it is given when handle returns the
\* document and never again, and every chunk of a component comes after it.
C15_PreambleFirst ==
  /\ (pc = "returned" /\ response.by = <<"router", "stream">>) => StreamingStarted
  /\ StreamingStarted =>
       /\ body[1] = Encode(Preamble)
       /\ \A i \in 2..Len(body) :
            /\ body[i] # Encode(Preamble)
            /\ body[i].bytes = "" \/ body[i].bytes[2] \in {fragments[k].id : k \in 1..Len(fragments)}

\* the leaf's loader settled before the outer one, and the body is the
\* preamble followed by chunks of both components
C15_Witness ==
  /\ settleOrder = <<2, 1>>
  /\ Len(body) >= 3
  /\ body[1] = Encode(Preamble)
  /\ body[2] = Encode(Open(fragments[1].id))
  /\ body[3] = Encode(Open(fragments[2].id))

\* startStreaming has left its try block
PumpEnded == pump \in {"normal", "readFailed", "writeFailed"}

\* C16: writer.close() is called exactly once for a document response, when
\* startStreaming leaves its loop, be it at the end of the renderable, at a
\* failed read or at a failed write; from then on the stream is ended and no
\* chunk is given to the writer.
C16_ClosedOnce ==
  /\ [](/\ closes <= 1
        /\ PumpEnded <=> closes = 1
        /\ closes = 1 => stream \in {"closed", "errored"}
        /\ (pump \in {"writing", "reading"}) => stream = "open")
  /\ [][closes = 1 => body' = body /\ stream' = stream /\ closes' = closes]_vars

\* the renderable failed after chunks had been written, and the finally
\* clause called close
C16_Witness ==
  /\ pump = "readFailed"
  /\ closes = 1
  /\ Len(body) >= 2

\* C17 as stated: when a read of the renderable or a write to the response
\* stream has failed, the response stream ends errored, not closed.
C17_FailureAborts == PumpEnded /\ pump # "normal" => stream = "errored"

\* C18: handle has returned the document response in every state in which
\* startStreaming has begun, whatever the renderable, the reader and the
\* writer have yet to do; no state has the document being streamed and
\* handle still waiting.
C18_PumpDetached ==
  /\ pump # "none" <=> (pc = "returned" /\ response.by = <<"router", "stream">>)
  /\ pump # "none" => response = StreamResponse(headers) /\ response.status = 200

\* handle has returned the document while the write of the preamble has not
\* gone through and the promise of the async leaf component is pending
C18_Witness ==
  /\ pc = "returned"
  /\ response.status = 200
  /\ pump = "writing"
  /\ body = <<Encode(Preamble)>>
  /\ Len(fragments) = 2
  /\ components[2].state = "pending"
  /\ readable = "readable"
  /\ source # <<>>

\* C19 as stated: once a write to the response stream has failed, the
\* renderable is not advanced: its generator takes no further step and
\* nothing more is enqueued.
C19_WriteFailureStops ==
  [][pump = "writeFailed" => source' = source /\ queue' = queue]_vars

\* the step is a call of Suspense
Declares == Len(elements') = Len(elements) + 1

PatchesOf(r) == SelectSeq(patches[r], LAMBDA c : c.chunk = "patch")

\* the position in settleSeq of the key id
SettledAt(id) == CHOOSE j \in 1..Len(settleSeq) : settleSeq[j] = id

\* the render whose call of Suspense made the key id
OwnerOf(id) ==
  LET i == CHOOSE k \in 1..Len(elements) : elements[k].id = id
  IN  elements[i].children.render

\* C21 as stated: the patches of a response come in the order in which the
\* deferred computations completed, also for computations that had completed
\* before the drain reached them.
C21_CompletionOrder ==
  \A r \in Renders :
    \A i, j \in 1..Len(PatchesOf(r)) :
      i < j => SettledAt(PatchesOf(r)[i].to) < SettledAt(PatchesOf(r)[j].to)

\* C22 as stated: a response holds patches only for subtrees declared by its
\* own render, and its drain waits on no entry declared by another render.
C22_Isolated ==
  \A r \in Renders :
    /\ \A i \in 1..Len(PatchesOf(r)) : OwnerOf(PatchesOf(r)[i].to) = r
    /\ drain[r] = "racing" => \A k \in Keys(race[r].among) : OwnerOf(k) = r

\* C23 as stated: a deferred computation that fails does not abort the drain.
C23_FailureContained == \A r \in Renders : drain[r] # "failed"

\* C24 as stated: a patch in a response targets a subtree whose fallback
\* element has been written to that response's body before.
C24_FallbackFirst ==
  \A r \in Renders :
    \A i \in 1..Len(PatchesOf(r)) :
      \E k \in 1..Len(flushed[r]) : flushed[r][k].id = PatchesOf(r)[i].to

\* every deferred computation begun by render r has completed or can still
\* complete: none has failed
NoneFailed(r) ==
  \A k \in 1..Len(ElementsOf(r)) : deferred[ElementsOf(r)[k].id].state # "rejected"

\* C25 as stated (its safety part): when the drain of a response whose
\* deferred computations do not fail has ended, none of them is pending
\* and each of its subtrees has been patched in that response.
C25_DrainComplete ==
  \A r \in Renders :
    (drain[r] = "done" /\ NoneFailed(r)) =>
      \A k \in 1..Len(ElementsOf(r)) :
        /\ deferred[ElementsOf(r)[k].id].state = "fulfilled"
        /\ \E i \in 1..Len(PatchesOf(r)) : PatchesOf(r)[i].to = ElementsOf(r)[k].id

\* the patches yielded so far, as pairs of a render and a position
Yielded == {<<r, i>> \in Renders \X (1..MaxDeclared * 4) :
              i <= Len(patches[r]) /\ patches[r][i].chunk = "patch"}

\* C26: what a Resolve yields begins with the script block, which it yields
\* once; everything after is a patch: a template whose id no other patch and
\* no element has, holding the markup the deferred computation produced, and
\* a marker whose to is the id of the element Suspense returned and whose
\* from is the id of that template.
C26_PatchFormat ==
  /\ \A r \in Renders :
       patches[r] # <<>> =>
         /\ patches[r][1] = Script
         /\ \A i \in 2..Len(patches[r]) : patches[r][i].chunk = "patch"
  /\ \A y \in Yielded :
       LET p == patches[y[1]][y[2]]
       IN  /\ p.from = p.template
           /\ \E k \in 1..Len(elements) : elements[k].id = p.to
           /\ p.element = Content(p.to)
           /\ \A k \in 1..Len(elements) : elements[k].id # p.template
           /\ \A z \in Yielded : z # y => patches[z[1]][z[2]].template # p.template

\* one Resolve has yielded the script block and two patches
C26_Witness ==
  \E r \in Renders :
    /\ Len(patches[r]) = 3
    /\ patches[r][1] = Script
    /\ patches[r][2].to # patches[r][3].to
    /\ drain[r] = "done"

\* C28 as stated, for what Resolve adds to the markup: it is the same at
\* every handling of a request, so it is determined by what the render of
\* that request declared itself: Resolve drains for a render that has
\* declared subtrees and returns nothing for a render that has declared none,
\* whatever other renders have done.
C28_Idempotent ==
  [][\A r \in Renders :
       (drain[r] = "none" /\ drain'[r] # "none") =>
         (drain'[r] = "script" <=> declared[r] > 0)]_vars

\* C29 as stated: once the body of a response has ended, the map holds no
\* entry declared by its render.
C29_NoLeak ==
  \A r \in Renders :
    drain[r] \in {"done", "failed"} => \A k \in Keys(suspended) : OwnerOf(k) # r

\* the chain of the route handle selects, as the table has it
MatchedChain == routes[Min(Matching)].fragments

\* the chunks a component of the fragment id yields
MarkupOf(id) == {Encode(Open(id)), Encode(Close(id))}

\* C27 as stated: the body of the response to an fx-request begins with the
\* markup of the fragment after the outermost one.
C27_Original ==
  (request.fx /\ StreamingStarted) => Encode(Open(fragments[1].id)) = body[1]

\* C27 (amended): on an fx-request handle goes on with the matched chain
\* without its outermost fragment: no function of that fragment is called,
\* its markup is not written, and the body is the preamble followed by the
\* markup of the next fragment.
C27_FxDropsOutermost ==
  (pc # "init" /\ request.fx /\ Matching # {}) =>
    /\ fragments = Tail(MatchedChain)
    /\ \A c \in 1..Len(calls) :
         /\ calls[c].frag # MatchedChain[1].id
         /\ \E k \in 2..Len(MatchedChain) : calls[c].frag = MatchedChain[k].id
    /\ \A i \in 1..Len(body) : body[i] \notin MarkupOf(MatchedChain[1].id)
    /\ Len(body) >= 1 => body[1] = Encode(Preamble)
    /\ Len(body) >= 2 => Encode(Open(MatchedChain[2].id)) = body[2]

\* an fx-request to a chain of two modules exporting everything was streamed
\* to its end
C27_Witness ==
  /\ request.fx
  /\ Len(MatchedChain) = 2
  /\ MatchedChain[1].mod = FullMod /\ MatchedChain[2].mod = FullMod
  /\ response.status = 200
  /\ pump = "normal"
  /\ Len(body) = 4

\* the last segment of a route name is the catch-all
EndsInCatchAll(a) == a[Len(a)] = "$"

\* b is to come first because a ends in the catch-all where b has a literal
\* or a parameter, or because b has a literal where a has a parameter
Loses(a, b) ==
  /\ Len(a) = Len(b)
  /\ \/ EndsInCatchAll(a) /\ ~EndsInCatchAll(b)
     \/ /\ ~EndsInCatchAll(a) /\ ~EndsInCatchAll(b)
        /\ \E i \in 1..Len(a) :
             /\ \A j \in 1..(i - 1) : StartsWithDollar(a[j]) = StartsWithDollar(b[j])
             /\ StartsWithDollar(a[i]) /\ ~StartsWithDollar(b[i])

\* C30 as stated: bySpecificity puts the name with more segments first; of
\* two names with as many segments it puts the one ending in the catch-all
\* after one that has a literal or a parameter there, and the one with a
\* literal before the one with a parameter at that position.
C30_BySpecificity ==
  compared.done =>
    LET a == names[1]
        b == names[2]
    IN  /\ Len(a) > Len(b) => compared.value < 0
        /\ Len(a) < Len(b) => compared.value > 0
        /\ Loses(a, b) => compared.value > 0
        /\ Loses(b, a) => compared.value < 0

RECURSIVE Yields(_)
\* the chunks a generator has still to yield, as the bytes they become
Yields(src) ==
  IF src = <<>> THEN <<>>
  ELSE IF Head(src).op = "yield"
    THEN <<Encode(Head(src).chunk)>> \o Yields(Tail(src))
    ELSE Yields(Tail(src))

\* the chunks of the renderable: those written after the preamble, those
\* enqueued and those the generator has still to yield
Produced == SubSeq(body, 2, Len(body)) \o queue \o Yields(source)

\* what the component of the fragment id renders around empty children
OwnOutput(id) == <<Encode(Open(id)), Encode(""), Encode(Close(id))>>

\* C31: the renderable composed for a chain of the document fragment alone is
\* the element its component returns for empty children, and its text is the
\* text of that element and nothing else.
C31_DocumentAlone ==
  (Len(fragments) = 1 /\ pump # "none" /\ readable # "errored") =>
    /\ node.frag = fragments[1].id /\ node.children = EmptyNode
    /\ \A c \in CallsTo("default") : calls[c].arg.children = EmptyNode
    /\ Cardinality(CallsTo("default")) = 1
    /\ Produced = OwnOutput(fragments[1].id)

\* the document of a chain of one fragment was streamed to its end
C31_Witness ==
  /\ Len(fragments) = 1
  /\ ~request.fx
  /\ pump = "normal"
  /\ Len(body) = 4

\* C32 as stated: the renderable is advanced only as fast as the body is
\* consumed: its generator takes a step only when no chunk it produced
\* earlier waits to be written, so the chunks produced and not yet written
\* never pile up with the length of the document.
C32_Backpressure == [][source' # source => queue = <<>>]_vars

\* the indices of the wildcards of a pattern
Wildcards(p) == {i \in 1..Len(p) : p[i] = "*"}

\* the indices of the catch-all segments among the segments a name keeps
CatchAlls(path) ==
  {j \in 1..Len(PathOf(path)) : ActualSegment(PathOf(path)[j]) = "$"}

\* C33: a pattern generatePatternString returns has at most one wildcard,
\* and it is its last piece: the pattern ends at the first catch-all segment
\* of the name, whatever follows it.
C33_OneWildcardLast ==
  pattern.done =>
    /\ Cardinality(Wildcards(pattern.value)) <= 1
    /\ \A i \in Wildcards(pattern.value) : i = Len(pattern.value)
    /\ CatchAlls(routePath) # {} =>
         /\ Wildcards(pattern.value) # {}
         /\ Len(pattern.value) = 2 * Min(CatchAlls(routePath))
    /\ CatchAlls(routePath) = {} => Wildcards(pattern.value) = {}

\* a name with a segment after its catch-all got its pattern
C33_Witness ==
  /\ pattern.done
  /\ Len(routePath) = 2
  /\ routePath[1] = "$" /\ routePath[2] = "a"
  /\ pattern.value = <<"/", "*">>

\* the names of a folder that are under no other name of it
LeavesOf(f) ==
  {i \in 1..Len(f) : \A k \in 1..Len(f) : ~StartsWithDot(f[k], f[i])}

\* the names of a folder a file is under
LayoutsOf(f, file) == {i \in 1..Len(f) : StartsWithDot(file, f[i])}

\* C34: every route item has the fragments document, then the files its name
\* is under, each once and a shorter name before a longer one, then the file
\* itself; there is one item for each file no other file is under, in
\* whatever order readdir listed the files.
C34_Chains ==
  table.stage = "items" =>
    /\ \A i \in LeavesOf(files) :
         \E k \in 1..Len(table.items) : table.items[k].file = files[i]
    /\ \A k \in 1..Len(table.items) :
         LET item == table.items[k]
             chain == item.fragments
             n == Len(chain)
         IN  /\ \E i \in LeavesOf(files) : files[i] = item.file
             /\ chain[1] = Document
             /\ chain[n] = item.file
             /\ n = Cardinality(LayoutsOf(files, item.file)) + 2
             /\ \A j \in 2..(n - 1) : StartsWithDot(item.file, chain[j])
             /\ \A j \in 2..(n - 2) : Len(chain[j]) < Len(chain[j + 1])

\* a file under two layouts, listed before them, got its route item
C34_Witness ==
  /\ table.stage = "items"
  /\ Len(files) = 3
  /\ Len(files[1]) = 3 /\ Len(files[2]) = 1 /\ Len(files[3]) = 2
  /\ Len(table.items) = 1
  /\ table.items[1].fragments = <<Document, files[2], files[3], files[1]>>

\* the patches of all renders that target the element with the key id
PatchesTo(id) == {y \in Yielded : patches[y[1]][y[2]].to = id}

\* C35 as stated: over all renders there is at most one patch for each
\* declared subtree.
C35_PatchedOnce ==
  \A k \in 1..Len(elements) : Cardinality(PatchesTo(elements[k].id)) <= 1

\* the drain of render q failed on a computation that had failed before its
\* last race began; render r declared all its subtrees after that race had
\* begun, and began to drain after it had declared them
DrainsAfterFailureOf(r, q) ==
  /\ drain[q] = "failed"
  /\ Early(race[q]) # {}
  /\ declared[r] > 0
  /\ \A k \in 1..Len(elements) :
       OwnerOf(elements[k].id) = r => elements[k].id \notin Keys(race[q].among)
  /\ flushed[r] = ElementsOf(r)
  /\ patches[r] # <<>>

\* C36 as stated: a render that declares and drains its subtrees after the
\* drain of another render has failed, and none of whose own computations
\* fails, does not fail, and when its drain is done all its subtrees are
\* patched in it.
C36_LaterUnaffected ==
  \A r, q \in Renders :
    (r # q /\ DrainsAfterFailureOf(r, q) /\ NoneFailed(r)) =>
      /\ drain[r] # "failed"
      /\ drain[r] = "done" =>
           \A k \in 1..Len(elements) :
             OwnerOf(elements[k].id) = r =>
               \E i \in 1..Len(PatchesOf(r)) : PatchesOf(r)[i].to = elements[k].id

\* C37: when startStreaming has left its loop at done, the body is the
\* preamble followed by the chunks of the composed renderable, each once
\* and in the order of its text, and nothing is left unread; until then the
\* chunks written after the preamble are the first chunks of that text.
C37_BodyIsDocument ==
  LET text == Yields(Text(fragments, node))
      sent == SubSeq(body, 2, Len(body))
  IN  /\ (pump # "none" /\ readable # "errored") =>
           /\ Len(sent) <= Len(text)
           /\ sent = SubSeq(text, 1, Len(sent))
      /\ pump = "normal" =>
           /\ stream = "closed"
           /\ Len(body) = Len(text) + 1
           /\ body = <<Encode(Preamble)>> \o text
           /\ queue = <<>> /\ source = <<>>

\* the document of a chain of two fragments, one of them with an async
\* component, was streamed to its end
C37_Witness ==
  /\ pump = "normal"
  /\ stream = "closed"
  /\ Len(fragments) = 2
  /\ \E k \in 1..2 : components[k].state = "fulfilled"
  /\ Len(body) = 6

\* the sign of a number
Sign(n) == IF n < 0 THEN -1 ELSE IF n > 0 THEN 1 ELSE 0

\* C38 as stated: what bySpecificity returns for two names and what it
\* returns for the same names the other way round have opposite signs, or
\* both are 0.
C38_Consistent ==
  compared.done =>
    Sign(compared.value) = -Sign(BySpecificity(names[2], names[1]))

\* the only fragment of the matched chain has a function for the method
ServesAlone(method) ==
  LET mod == MatchedChain[1].mod
  IN  IF method = "GET" THEN mod.default \/ mod.loader ELSE mod.action

\* C39: an fx-request that matches a chain of one fragment is left with no
\* fragment: handle answers 404 at once, for every method, and calls no
\* function and streams nothing; the same request without the header is
\* handled with that fragment, and by the time handle returns a function of
\* it has been called, whenever the fragment has one for the method.
C39_FxOnSingleFragment ==
  (pc # "init" /\ Matching # {} /\ Len(MatchedChain) = 1) =>
    /\ request.fx =>
         /\ fragments = <<>>
         /\ pc = "returned"
         /\ response = NullResponse(404)
         /\ calls = <<>>
         /\ NoStreaming
    /\ (~request.fx /\ ServesAlone(request.method)) =>
         /\ fragments = MatchedChain
         /\ pc = "returned" => calls # <<>>
         /\ \A c \in 1..Len(calls) : calls[c].frag = MatchedChain[1].id

\* an fx-request got 404 from a chain of one fragment that exports everything
C39_Witness ==
  /\ request.fx
  /\ Matching # {}
  /\ Len(MatchedChain) = 1
  /\ MatchedChain[1].mod = FullMod
  /\ pc = "returned"
  /\ response = NullResponse(404)

====
